---- MODULE Spec2Model ----
(***************************************************************************)
(* A model of tasktiger (src/tasktiger.py): producers calling delay(),     *)
(* worker processes running worker(), and the Redis broker they share.     *)
(*                                                                         *)
(* Broker state: the three status sets (t:queued, t:active, t:error), the  *)
(* sorted sets t:<status>:<queue>, the task records t:task:<id>, the       *)
(* execution lists t:task:<id>:executions and the activity channel.  A     *)
(* redis-py pipeline is sent as one MULTI/EXEC transaction and a Lua       *)
(* script runs atomically, so each is one step; separate broker calls are  *)
(* separate steps.  The scripts of redis_scripts (zpoppush,                *)
(* srem_if_not_exists, delete_if_not_in_zsets) are not part of the source  *)
(* tree and are modelled from their description.                           *)
(*                                                                         *)
(* Every task ID has one queue (QueueOf) and is unique or not (IsUnique):  *)
(* a non-unique ID is random, so delay() produces it once; a unique ID is  *)
(* the hash of the call and may be produced again.                         *)
(*                                                                         *)
(* A behaviour starts from one of a few small deployments: which workers   *)
(* are ever started and which tasks the producers enqueue.                 *)
(***************************************************************************)
EXTENDS Integers, FiniteSets, Sequences, TLC

\* Program constants (seconds).
ACTIVE_TASK_UPDATE_TIMER == 10
ACTIVE_TASK_UPDATE_TIMEOUT == 60
ACTIVE_TASK_EXPIRED_BATCH_SIZE == 10

\* Bounds of the model.
MaxTicks == 2
MaxDelay == 2
MaxTicksLong == 4

\* The clock advances in steps of half the reclaim horizon (three heartbeat
\* intervals).
TickStep == ACTIVE_TASK_UPDATE_TIMEOUT \div 2
MaxTime == MaxTicks * TickStep

Workers == {"w1", "w2", "w3"}
Queues == {"qa", "qb"}
Tasks == {"n1", "u1", "n2", "n3"}
Statuses == {"queued", "active", "error"}
Outcomes == {"ok", "raise", "noimport", "killed"}

IsUnique(t) == t = "u1"
QueueOf(t) == IF t = "n2" THEN "qb" ELSE "qa"

\* The deployments explored: two workers sharing one task (unique, or not),
\* and one worker with two tasks on two queues.
Deployments ==
    {[workers |-> {"w1", "w2"}, tasks |-> {"u1"}],
     [workers |-> {"w1", "w2"}, tasks |-> {"n1"}],
     [workers |-> {"w1"}, tasks |-> {"u1", "n2"}]}

NoScore == -1
NoRecord == -1
NoTask == "none"
NoQueue == "none"

VARIABLES
    deploy,          \* the deployment: workers started, tasks enqueued
    now,             \* time.time()
    status_set,      \* status_set[s]: the set t:<s> of queue names
    zset,            \* zset[s][t]: score of t in t:<s>:<QueueOf(t)>, or NoScore
    task,            \* task[t]: time_last_queued of record t:task:<t>, or NoRecord
    executions,      \* executions[t]: length of t:task:<t>:executions
    activity,        \* activity[w]: unread messages of w's subscription
    pc,              \* pc[w]: where worker w is in worker()
    loc,             \* loc[w]: the local variables of worker w
    stop_requested,  \* _stop_requested of worker w's process
    delayed,         \* history: delayed[t] = number of delay() calls producing t
    instances,       \* history: delay() calls for t made while t was not pending
    reclaimed,       \* history: tasks moved back by _worker_queue_expired_tasks
    runs,            \* history: runs[t] = number of completed calls of t's callable
    awaiting         \* history: t was enqueued and no execution succeeded since

vars == <<deploy, now, status_set, zset, task, executions, activity, pc, loc,
          stop_requested, delayed, instances, reclaimed, runs, awaiting>>

\* The history variables, which no action reads except delay's bound.
history == <<delayed, instances, reclaimed, runs, awaiting>>

\* Locals of a worker: queue_set (worker), queues (the part of the shuffled
\* list _worker_run has not visited), queue and task_id (_process_from_queue),
\* alarm (when the UnixSignalDeathPenalty timer of _execute was armed),
\* active_queues and now (_worker_queue_expired_tasks).
InitLoc ==
    [queue_set |-> {}, queues |-> {}, queue |-> NoQueue, task_id |-> NoTask,
     alarm |-> 0, active_queues |-> {}, now |-> 0]

\* A worker process that has exited or was killed.
Gone == {"done", "dead"}

\* Program positions at which request_stop is installed.
InRun == {"run", "claimed", "exec", "success", "failure", "expire", "reclaim",
          "publish"}

----------------------------------------------------------------------------
\* Broker primitives.

\* Members of the sorted set t:<s>:<q>.
Members(z, s, q) == {t \in Tasks : QueueOf(t) = q /\ z[s][t] # NoScore}

zadd(z, s, t, score) == [z EXCEPT ![s][t] = score]

zrem(z, s, t) == [z EXCEPT ![s][t] = NoScore]

sadd(ss, s, q) == [ss EXCEPT ![s] = @ \cup {q}]

srem(ss, s, q) == [ss EXCEPT ![s] = @ \ {q}]

\* Remove q from status set s iff t:<s>:<q> is empty.
srem_if_not_exists(ss, s, q, z) ==
    IF Members(z, s, q) = {} THEN srem(ss, s, q) ELSE ss

\* Delete the record of t iff t is in none of the sorted sets zs of its queue.
delete_if_not_in_zsets(rec, t, z, zs) ==
    IF \E s \in zs : z[s][t] # NoScore THEN rec ELSE [rec EXCEPT ![t] = NoRecord]

\* The sets of IDs one zpoppush call may move: up to count members of
\* t:<src>:<q>, lowest scores first, with score <= max_score when bounded.
zpoppush_ids(z, src, q, count, bounded, max_score) ==
    LET elig == {t \in Members(z, src, q) : (~bounded) \/ z[src][t] <= max_score}
        n == IF Cardinality(elig) < count THEN Cardinality(elig) ELSE count
    IN {S \in SUBSET elig :
            /\ Cardinality(S) = n
            /\ \A a \in S, b \in elig \ S : z[src][a] <= z[src][b]}

\* The sorted sets after moving `moved` from src to dst with score new_score.
zpoppush_zset(z, src, dst, moved, new_score) ==
    [s \in Statuses |->
        [t \in Tasks |->
            IF t \in moved
            THEN (IF s = dst THEN new_score ELSE IF s = src THEN NoScore ELSE z[s][t])
            ELSE z[s][t]]]

\* on_success=('update_sets', src_set, dst_set, queue), z being the sorted
\* sets after the move.
update_sets(ss, z, src, dst, q, moved) ==
    IF moved = {} THEN ss
    ELSE LET added == sadd(ss, dst, q)
         IN IF Members(z, src, q) = {} THEN srem(added, src, q) ELSE added

\* Workers whose subscription to t:activity is open.
Subscribed == {w \in Workers : pc[w] \notin {"off", "dead", "done"}}

publish(act, q) ==
    [w \in Workers |-> IF w \in Subscribed THEN act[w] \cup {q} ELSE act[w]]

----------------------------------------------------------------------------
\* The state when deployment d is set up: an empty broker, no worker started.
Start(d) ==
    /\ deploy = d
    /\ now = 0
    /\ status_set = [s \in Statuses |-> {}]
    /\ zset = [s \in Statuses |-> [t \in Tasks |-> NoScore]]
    /\ task = [t \in Tasks |-> NoRecord]
    /\ executions = [t \in Tasks |-> 0]
    /\ activity = [w \in Workers |-> {}]
    /\ pc = [w \in Workers |-> "off"]
    /\ loc = [w \in Workers |-> InitLoc]
    /\ stop_requested = [w \in Workers |-> FALSE]
    /\ delayed = [t \in Tasks |-> 0]
    /\ instances = [t \in Tasks |-> 0]
    /\ reclaimed = {}
    /\ runs = [t \in Tasks |-> 0]
    /\ awaiting = [t \in Tasks |-> FALSE]

Init == \E d \in Deployments : Start(d)

\* Worker w moves to position p with locals l; a process that is gone has no
\* locals.
Goto(w, p, l) ==
    /\ pc' = [pc EXCEPT ![w] = p]
    /\ loc' = [loc EXCEPT ![w] = IF p \in Gone THEN InitLoc ELSE l]

\* The subscriptions after worker w moved to position p.
Unsubscribe(w, p) == IF p \in Gone THEN [activity EXCEPT ![w] = {}] ELSE activity

\* worker(), lines 370-374: the top of the loop with queue_set qs.
LoopTop(qs) == IF qs = {} THEN "listen" ELSE "run"

\* _worker_run lines 329-336 and worker lines 374-377, after a queue was
\* processed and `rest` is still to visit.
\* A loop that does not consult stop_requested between queues.
AfterQueue_IgnoreStop(w, rest) ==
    IF rest = {} THEN "expire" ELSE "run"

AfterQueue(w, rest) ==
    IF stop_requested[w] THEN "done" ELSE IF rest = {} THEN "expire" ELSE "run"

\* time.time() advances.
Tick ==
    /\ now < MaxTime
    /\ now' = now + TickStep
    /\ UNCHANGED <<deploy, status_set, zset, task, executions, activity, pc,
                   loc, stop_requested, history>>

\* An instance of t is waiting or being processed.
Pending(t) == zset["queued"][t] # NoScore \/ zset["active"][t] # NoScore

\* delay(): a producer enqueues task t on its queue.
delay(t) ==
    /\ t \in deploy.tasks
    /\ delayed[t] < (IF IsUnique(t) THEN MaxDelay ELSE 1)
    /\ status_set' = sadd(status_set, "queued", QueueOf(t))
    /\ task' = [task EXCEPT ![t] = now]
    /\ zset' = zadd(zset, "queued", t, now)
    /\ activity' = publish(activity, QueueOf(t))
    /\ delayed' = [delayed EXCEPT ![t] = @ + 1]
    /\ instances' = [instances EXCEPT ![t] = IF Pending(t) THEN @ ELSE @ + 1]
    /\ awaiting' = [awaiting EXCEPT ![t] = TRUE]
    /\ UNCHANGED <<deploy, now, executions, pc, loc, stop_requested, reclaimed,
                   runs>>

\* worker() lines 364-367: subscribe and snapshot t:queued.
worker_start(w) ==
    /\ w \in deploy.workers
    /\ pc[w] = "off"
    /\ LET qs == status_set["queued"]
       IN Goto(w, LoopTop(qs), [InitLoc EXCEPT !.queue_set = qs, !.queues = qs])
    /\ UNCHANGED <<deploy, now, status_set, zset, task, executions, activity,
                   stop_requested, history>>

\* _worker_update_queue_set: read one pending message, or return when none
\* is pending and queue_set is not empty (it blocks when both are empty).
worker_update_queue_set(w) ==
    /\ pc[w] = "listen"
    /\ \/ \E q \in activity[w] :
            /\ activity' = [activity EXCEPT ![w] = @ \ {q}]
            /\ Goto(w, "listen", [loc[w] EXCEPT !.queue_set = @ \cup {q}])
       \/ /\ activity[w] = {}
          /\ loc[w].queue_set # {}
          /\ activity' = activity
          /\ Goto(w, "run", [loc[w] EXCEPT !.queues = loc[w].queue_set])
    /\ UNCHANGED <<deploy, now, status_set, zset, task, executions, stop_requested, history>>

\* _process_from_queue lines 221-233 for the next queue of the pass: the
\* claim, and lines 330-333 when nothing was claimed.
process_from_queue(w) ==
    /\ pc[w] = "run"
    /\ \E q \in loc[w].queues :
       \E moved \in zpoppush_ids(zset, "queued", q, 1, FALSE, 0) :
          LET z == zpoppush_zset(zset, "queued", "active", moved, now)
              rest == loc[w].queues \ {q}
          IN /\ zset' = z
             /\ status_set' = update_sets(status_set, z, "queued", "active", q, moved)
             /\ IF moved = {}
                THEN /\ Goto(w, AfterQueue(w, rest),
                             [loc[w] EXCEPT !.queues = rest, !.queue_set = @ \ {q}])
                     /\ activity' = Unsubscribe(w, AfterQueue(w, rest))
                ELSE /\ Goto(w, "claimed",
                             [loc[w] EXCEPT !.queues = rest, !.queue = q,
                                            !.task_id = CHOOSE t \in moved : TRUE])
                     /\ activity' = activity
    /\ UNCHANGED <<deploy, now, task, executions, stop_requested, history>>

\* _process_from_queue lines 238-247 and _execute lines 189-207: load the
\* record; when it is missing return the ID, else fork the child and arm the
\* heartbeat timer.
load_task(w) ==
    /\ pc[w] = "claimed"
    /\ IF task[loc[w].task_id] = NoRecord
       THEN /\ Goto(w, AfterQueue(w, loc[w].queues),
                    [loc[w] EXCEPT !.queue = NoQueue, !.task_id = NoTask])
            /\ activity' = Unsubscribe(w, AfterQueue(w, loc[w].queues))
       ELSE /\ Goto(w, "exec", [loc[w] EXCEPT !.alarm = now])
            /\ activity' = activity
    /\ UNCHANGED <<deploy, now, status_set, zset, task, executions, stop_requested, history>>

\* _heartbeat, called from _execute line 214 when the timer fired.
heartbeat(w) ==
    /\ pc[w] = "exec"
    /\ now - loc[w].alarm >= ACTIVE_TASK_UPDATE_TIMER
    /\ zset' = zadd(zset, "active", loc[w].task_id, now)
    /\ Goto(w, "exec", [loc[w] EXCEPT !.alarm = now])
    /\ UNCHANGED <<deploy, now, status_set, task, executions, activity, stop_requested, history>>

\* _execute_forked in the child with outcome o, and the parent's waitpid
\* returning (lines 208-218): "ok" the callable returned, "raise" it raised
\* or the hard timeout fired, "noimport" it could not be resolved, "killed"
\* the child was killed by a signal before it wrote anything.
execute(w, o) ==
    /\ pc[w] = "exec"
    /\ executions' = [executions EXCEPT ![loc[w].task_id] =
                         IF o \in {"raise", "noimport"} THEN @ + 1 ELSE @]
    /\ runs' = [runs EXCEPT ![loc[w].task_id] =
                         IF o \in {"ok", "raise"} THEN @ + 1 ELSE @]
    /\ awaiting' = [awaiting EXCEPT ![loc[w].task_id] = IF o = "ok" THEN FALSE ELSE @]
    /\ Goto(w, IF o = "ok" THEN "success" ELSE "failure", [loc[w] EXCEPT !.alarm = 0])
    /\ UNCHANGED <<deploy, now, status_set, zset, task, activity, stop_requested,
                   delayed, instances, reclaimed>>

\* A success pipeline that leaves the ID in active:Q.
reconcile_success_KeepActive(w) ==
    /\ pc[w] = "success"
    /\ LET t == loc[w].task_id
           q == loc[w].queue
           z == zset
           p == AfterQueue(w, loc[w].queues)
       IN /\ zset' = z
          /\ task' = IF IsUnique(t)
                     THEN delete_if_not_in_zsets(task, t, z, {"queued", "error"})
                     ELSE [task EXCEPT ![t] = NoRecord]
          /\ status_set' = srem_if_not_exists(status_set, "active", q, z)
          /\ Goto(w, p, [loc[w] EXCEPT !.queue = NoQueue, !.task_id = NoTask])
          /\ activity' = Unsubscribe(w, p)
    /\ UNCHANGED <<deploy, now, executions, stop_requested, history>>

\* _process_from_queue lines 248-263: the pipeline after a success.
reconcile_success(w) ==
    /\ pc[w] = "success"
    /\ LET t == loc[w].task_id
           q == loc[w].queue
           z == zrem(zset, "active", t)
           p == AfterQueue(w, loc[w].queues)
       IN /\ zset' = z
          /\ task' = IF IsUnique(t)
                     THEN delete_if_not_in_zsets(task, t, z, {"queued", "error"})
                     ELSE [task EXCEPT ![t] = NoRecord]
          /\ status_set' = srem_if_not_exists(status_set, "active", q, z)
          /\ Goto(w, p, [loc[w] EXCEPT !.queue = NoQueue, !.task_id = NoTask])
          /\ activity' = Unsubscribe(w, p)
    /\ UNCHANGED <<deploy, now, executions, stop_requested, history>>

\* A failure pipeline that leaves the ID in active:Q.
reconcile_failure_KeepActive(w) ==
    /\ pc[w] = "failure"
    /\ LET t == loc[w].task_id
           q == loc[w].queue
           z == zadd(zset, "error", t, now)
           p == AfterQueue(w, loc[w].queues)
       IN /\ zset' = z
          /\ status_set' = srem_if_not_exists(status_set, "active", q, z)
          /\ Goto(w, p, [loc[w] EXCEPT !.queue = NoQueue, !.task_id = NoTask])
          /\ activity' = Unsubscribe(w, p)
    /\ UNCHANGED <<deploy, now, task, executions, stop_requested, history>>

\* _process_from_queue lines 264-274: the pipeline after a failure.
reconcile_failure(w) ==
    /\ pc[w] = "failure"
    /\ LET t == loc[w].task_id
           q == loc[w].queue
           z == zadd(zrem(zset, "active", t), "error", t, now)
           p == AfterQueue(w, loc[w].queues)
       IN /\ zset' = z
          /\ status_set' = srem_if_not_exists(status_set, "active", q, z)
          /\ Goto(w, p, [loc[w] EXCEPT !.queue = NoQueue, !.task_id = NoTask])
          /\ activity' = Unsubscribe(w, p)
    /\ UNCHANGED <<deploy, now, task, executions, stop_requested, history>>

\* _worker_queue_expired_tasks lines 302-303: snapshot t:active and the time.
expired_tasks_start(w) ==
    /\ pc[w] = "expire"
    /\ Goto(w, "reclaim", [loc[w] EXCEPT !.active_queues = status_set["active"],
                                         !.now = now])
    /\ UNCHANGED <<deploy, now, status_set, zset, task, executions, activity,
                   stop_requested, history>>

\* A reclaim that passes no score limit to zpoppush.
expired_tasks_queue_NoLimit(w) ==
    /\ pc[w] = "reclaim"
    /\ \E q \in loc[w].active_queues :
       \E moved \in zpoppush_ids(zset, "active", q, ACTIVE_TASK_EXPIRED_BATCH_SIZE,
                                 FALSE, loc[w].now - ACTIVE_TASK_UPDATE_TIMEOUT) :
          LET z == zpoppush_zset(zset, "active", "queued", moved, loc[w].now)
              rest == loc[w].active_queues \ {q}
          IN /\ zset' = z
             /\ status_set' = update_sets(status_set, z, "active", "queued", q, moved)
             /\ reclaimed' = reclaimed \cup moved
             /\ IF moved = {}
                THEN Goto(w, "reclaim", [loc[w] EXCEPT !.active_queues = rest])
                ELSE Goto(w, "publish", [loc[w] EXCEPT !.active_queues = rest,
                                                       !.queue = q])
    /\ UNCHANGED <<deploy, now, task, executions, activity, stop_requested,
                   delayed, instances, runs, awaiting>>

\* _worker_queue_expired_tasks lines 304-314: the zpoppush of one queue.
expired_tasks_queue(w) ==
    /\ pc[w] = "reclaim"
    /\ \E q \in loc[w].active_queues :
       \E moved \in zpoppush_ids(zset, "active", q, ACTIVE_TASK_EXPIRED_BATCH_SIZE,
                                 TRUE, loc[w].now - ACTIVE_TASK_UPDATE_TIMEOUT) :
          LET z == zpoppush_zset(zset, "active", "queued", moved, loc[w].now)
              rest == loc[w].active_queues \ {q}
          IN /\ zset' = z
             /\ status_set' = update_sets(status_set, z, "active", "queued", q, moved)
             /\ reclaimed' = reclaimed \cup moved
             /\ IF moved = {}
                THEN Goto(w, "reclaim", [loc[w] EXCEPT !.active_queues = rest])
                ELSE Goto(w, "publish", [loc[w] EXCEPT !.active_queues = rest,
                                                       !.queue = q])
    /\ UNCHANGED <<deploy, now, task, executions, activity, stop_requested,
                   delayed, instances, runs, awaiting>>

\* _worker_queue_expired_tasks line 316: announce the queue of reclaimed tasks.
expired_tasks_publish(w) ==
    /\ pc[w] = "publish"
    /\ activity' = publish(activity, loc[w].queue)
    /\ Goto(w, "reclaim", [loc[w] EXCEPT !.queue = NoQueue])
    /\ UNCHANGED <<deploy, now, status_set, zset, task, executions, stop_requested, history>>

\* _worker_run line 339 and worker lines 375-377, 370-374: the run is over.
worker_run_end(w) ==
    /\ pc[w] = "reclaim"
    /\ loc[w].active_queues = {}
    /\ LET p == IF stop_requested[w] THEN "done" ELSE LoopTop(loc[w].queue_set)
       IN /\ Goto(w, p, [loc[w] EXCEPT !.queues = loc[w].queue_set, !.now = 0])
          /\ activity' = Unsubscribe(w, p)
    /\ UNCHANGED <<deploy, now, status_set, zset, task, executions, stop_requested, history>>

\* SIGINT or SIGTERM reaches worker w: request_stop while the handlers are
\* installed (a waitpid in progress fails with EINTR and the timer is armed
\* afresh); the default action, which ends the process, otherwise.
request_stop(w) ==
    /\ pc[w] \in InRun \cup {"listen"}
    /\ IF pc[w] \in InRun
       THEN /\ stop_requested' = [stop_requested EXCEPT ![w] = TRUE]
            /\ Goto(w, pc[w], IF pc[w] = "exec"
                              THEN [loc[w] EXCEPT !.alarm = now] ELSE loc[w])
            /\ activity' = activity
       ELSE /\ stop_requested' = stop_requested
            /\ Goto(w, "dead", InitLoc)
            /\ activity' = Unsubscribe(w, "dead")
    /\ UNCHANGED <<deploy, now, status_set, zset, task, executions, history>>

\* Worker w's process dies (SIGKILL, power loss) wherever it is.
crash(w) ==
    /\ pc[w] \in InRun \cup {"listen"}
    /\ Goto(w, "dead", InitLoc)
    /\ activity' = Unsubscribe(w, "dead")
    /\ UNCHANGED <<deploy, now, status_set, zset, task, executions, stop_requested, history>>

Next ==
    \/ Tick
    \/ \E t \in Tasks : delay(t)
    \/ \E w \in Workers : worker_start(w)
    \/ \E w \in Workers : worker_update_queue_set(w)
    \/ \E w \in Workers : process_from_queue(w)
    \/ \E w \in Workers : load_task(w)
    \/ \E w \in Workers : heartbeat(w)
    \/ \E w \in Workers, o \in Outcomes : execute(w, o)
    \/ \E w \in Workers : reconcile_success(w)
    \/ \E w \in Workers : reconcile_failure(w)
    \/ \E w \in Workers : expired_tasks_start(w)
    \/ \E w \in Workers : expired_tasks_queue(w)
    \/ \E w \in Workers : expired_tasks_publish(w)
    \/ \E w \in Workers : worker_run_end(w)
    \/ \E w \in Workers : request_stop(w)
    \/ \E w \in Workers : crash(w)

Spec == Init /\ [][Next]_vars

\* The steps of worker w's own process.
WorkerStep(w) ==
    \/ worker_update_queue_set(w)
    \/ process_from_queue(w)
    \/ load_task(w)
    \/ heartbeat(w)
    \/ \E o \in Outcomes : execute(w, o)
    \/ reconcile_success(w)
    \/ reconcile_failure(w)
    \/ expired_tasks_start(w)
    \/ expired_tasks_queue(w)
    \/ expired_tasks_publish(w)
    \/ worker_run_end(w)

\* Two workers and one task on one queue.
InitLive == Start([workers |-> {"w1", "w2"}, tasks |-> {"n1"}])

\* Time passes, every live worker process keeps running and every child
\* terminates (at the latest when its hard timeout fires); producers, signals
\* and crashes are under no obligation.
SpecLive ==
    /\ InitLive
    /\ [][Next]_vars
    /\ WF_vars(Tick)
    /\ \A w \in Workers : WF_vars(WorkerStep(w))
    /\ \A w \in Workers : WF_vars(\E o \in Outcomes : execute(w, o))

\* Every worker that holds a task is on schedule: it has loaded the record
\* of the ID it claimed, and its heartbeat timer has not expired.
OnSchedule ==
    \A w \in Workers :
        /\ pc[w] # "claimed"
        /\ pc[w] = "exec" => now - loc[w].alarm < ACTIVE_TASK_UPDATE_TIMER

\* Two workers and one task; time advances only while every worker that
\* holds a task is on schedule.
SpecOnSchedule == InitLive /\ [][Next /\ (now' # now => OnSchedule)]_vars

\* Two workers and two tasks on one queue. The workers are interchangeable
\* and so are the tasks: w1 is started first and n1 is enqueued first. No
\* stop signal is sent to a worker that is in a run.
InitFifo == Start([workers |-> {"w1", "w2"}, tasks |-> {"n1", "n3"}])

InOrder ==
    /\ pc'["w2"] # pc["w2"] => pc["w1"] # "off"
    /\ delayed'["n3"] # delayed["n3"] => delayed["n1"] = 1
    /\ stop_requested' = stop_requested

SpecFifo == InitFifo /\ [][Next /\ InOrder]_vars

\* time.time() advances, over two reclaim horizons.
TickLong ==
    /\ now < MaxTicksLong * TickStep
    /\ now' = now + TickStep
    /\ UNCHANGED <<deploy, status_set, zset, task, executions, activity, pc,
                   loc, stop_requested, history>>

\* Three workers and one task. The workers are interchangeable: they are
\* started in the order w1, w2, w3. No stop signal is sent to a worker that
\* is in a run.
InitThree == Start([workers |-> {"w1", "w2", "w3"}, tasks |-> {"n1"}])

StartedInOrder ==
    /\ pc'["w2"] # pc["w2"] => pc["w1"] # "off"
    /\ pc'["w3"] # pc["w3"] => pc["w2"] # "off"
    /\ stop_requested' = stop_requested

\* Two workers, started in the order w1, w2, and one task over two reclaim
\* horizons, with no stop signal sent to a worker in a run; time passes and
\* every live worker process keeps running.
SpecLong ==
    /\ InitLive
    /\ [][(Next \/ TickLong) /\ StartedInOrder]_vars
    /\ WF_vars(TickLong)
    /\ \A w \in Workers : WF_vars(WorkerStep(w))

\* Time passes and every live worker process keeps running.
SpecThree ==
    /\ InitThree
    /\ [][Next /\ StartedInOrder]_vars
    /\ WF_vars(Tick)
    /\ \A w \in Workers : WF_vars(WorkerStep(w))

----------------------------------------------------------------------------
\* Properties.

\* The sorted sets of its queue that hold t.
Buckets(t) == {s \in Statuses : zset[s][t] # NoScore}

\* Worker w is alive and holds t as the task of its _process_from_queue.
Holds(w, t) == pc[w] \notin Gone /\ loc[w].task_id = t

\* Worker w takes its reconciliation step (it neither stays nor dies).
Reconciles(w, from) == pc[w] = from /\ pc'[w] \in {"run", "expire", "done"}

\* C1: every task ID is in at most one of queued:Q, active:Q, error:Q of its
\* queue, in every reachable state.
C1_AtMostOneBucket == \A t \in Tasks : Cardinality(Buckets(t)) <= 1

\* C2: outside a worker's own post-execution reconciliation of the task,
\* every ID that is in queued:Q, active:Q or error:Q has a record task:<id>
\* (here even when no reclaim pass has moved anything).
C2_BucketedHasRecord ==
    reclaimed = {} =>
        \A t \in Tasks :
            (/\ Buckets(t) # {}
             /\ ~ \E w \in Workers : Holds(w, t) /\ pc[w] \in {"success", "failure"})
            => task[t] # NoRecord

\* C3: for the statuses queued and active, the status set holds Q exactly
\* when the sorted set <status>:Q is non-empty, in every state between the
\* broker's transactions (here even when no reclaim pass has moved anything).
C3_StatusSetIffNonEmpty ==
    reclaimed = {} =>
        \A s \in {"queued", "active"}, q \in Queues :
            (q \in status_set[s]) <=> (Members(zset, s, q) # {})

\* C4: the error status set holds Q whenever error:Q is not empty, the
\* failure reconciliation having added it.
C4_ErrorSetHoldsQueue ==
    \A q \in Queues : Members(zset, "error", q) # {} => q \in status_set["error"]

\* The task worker w holds was enqueued once and never reclaimed.
OnceOnly(t) == delayed[t] = 1 /\ t \notin reclaimed

\* t is the only task of its queue that is in a sorted set.
OnlyTask(t) == \A u \in Tasks \ {t} : QueueOf(u) = QueueOf(t) => Buckets(u) = {}

\* C5: when a worker reconciles the success of a task that was enqueued once
\* and never reclaimed, the record is gone, the ID is in no sorted set, and,
\* the task being the only one of its queue, no status set holds the queue.
C5_SuccessLeavesNothing ==
    [][\A w \in Workers :
        LET t == loc[w].task_id
        IN (Reconciles(w, "success") /\ OnceOnly(t)) =>
             /\ task'[t] = NoRecord
             /\ \A s \in Statuses : zset'[s][t] = NoScore
             /\ OnlyTask(t) => \A s \in Statuses : QueueOf(t) \notin status_set'[s]
      ]_vars

\* A task enqueued once and never reclaimed has run, succeeded and been
\* reconciled: nothing holds it and its record is deleted.
C5_Witness ==
    \E t \in Tasks :
        /\ OnceOnly(t)
        /\ runs[t] = 1
        /\ executions[t] = 0
        /\ task[t] = NoRecord
        /\ \A w \in Workers : ~Holds(w, t)

\* C6: an execution that fails appends an execution record, and after the
\* worker's reconciliation the ID is in error:Q and in no other sorted set,
\* and the record is retained.
C6_FailureLeavesErrorAndRecord ==
    [][\A w \in Workers :
        LET t == loc[w].task_id
        IN /\ (pc[w] = "exec" /\ pc'[w] = "failure") => executions'[t] > executions[t]
           /\ Reconciles(w, "failure") =>
                /\ \A s \in Statuses : (zset'[s][t] # NoScore) <=> (s = "error")
                /\ task'[t] # NoRecord
      ]_vars

\* C7: enqueuing a unique task whose ID is in one of the sorted sets leaves
\* the membership of all three sorted sets unchanged.
C7_UniqueReenqueueKeepsBuckets ==
    [][\A t \in Tasks :
        (IsUnique(t) /\ Buckets(t) # {} /\ delayed'[t] = delayed[t] + 1) =>
            \A u \in Tasks, s \in Statuses :
                (zset'[s][u] # NoScore) <=> (zset[s][u] # NoScore)
      ]_vars

\* C8: a unique task enqueued twice, the second time while the first
\* instance was still queued or executing, is executed at most once (here
\* even with no reclaim of the task).
C8_UniqueRunsOnce ==
    \A t \in Tasks :
        (IsUnique(t) /\ delayed[t] = 2 /\ instances[t] = 1 /\ t \notin reclaimed)
            => runs[t] <= 1

\* Worker w's process is running.
Running(w) == pc[w] \in InRun \cup {"listen"}

\* t is in active:Q with a score older than the timeout, no live worker
\* holds it, and some worker is running.
Orphaned(t) ==
    /\ zset["active"][t] # NoScore
    /\ zset["active"][t] <= now - ACTIVE_TASK_UPDATE_TIMEOUT
    /\ \A w \in Workers : ~Holds(w, t)
    /\ \E w \in Workers : Running(w)

\* C9: a task left in active:Q by a dead worker, its score older than
\* ACTIVE_TASK_UPDATE_TIMEOUT, is eventually taken out of active:Q by a
\* reclaim pass as long as some worker is running.
C9_OrphanEventuallyReclaimed ==
    \A t \in Tasks :
        Orphaned(t) ~> (zset["active"][t] = NoScore \/ \A w \in Workers : ~Running(w))

\* C10: once a stop was requested, a worker that is executing a task only
\* waits for the child, reconciles the task and exits: it claims no further
\* task and starts no reclaim pass.
C10_StopFinishesTask ==
    [][\A w \in Workers :
        stop_requested[w] =>
            /\ pc[w] = "exec" => pc'[w] \in {"exec", "success", "failure", "dead"}
            /\ pc[w] \in {"success", "failure"} => pc'[w] \in {pc[w], "done", "dead"}
            /\ (pc[w] \in {"success", "failure"} /\ pc'[w] = "done") =>
                   zset'["active"][loc[w].task_id] = NoScore
            /\ pc[w] = "done" => pc'[w] = "done"
      ]_vars

\* A worker stopped while it held a task has exited, the task having run.
C10_Witness ==
    \E w \in Workers, t \in Tasks :
        /\ pc[w] = "done"
        /\ stop_requested[w]
        /\ runs[t] >= 1
        /\ zset["active"][t] = NoScore

\* C11: whenever a claim moves an ID from queued:Q to active:Q, no other ID
\* in queued:Q at that moment has a strictly smaller time_last_queued in its
\* record, reclaimed tasks included (IDs of equal score in queued:Q, which
\* the broker orders by ID, left aside).
C11_ClaimsInEnqueueOrder ==
    [][\A w \in Workers :
        (pc[w] = "run" /\ pc'[w] = "claimed") =>
            LET t == loc'[w].task_id
            IN \A u \in Members(zset, "queued", QueueOf(t)) :
                   (/\ task[u] # NoRecord
                    /\ task[t] # NoRecord
                    /\ zset["queued"][u] # zset["queued"][t]) => task[u] >= task[t]
      ]_vars

\* Some worker is running and was not asked to stop.
Serving == \E w \in Workers : Running(w) /\ ~stop_requested[w]

\* C12: a task that waits alone in queued:Q while some worker is running and
\* not stopping is eventually claimed, with no further enqueue needed, also
\* when it got there through a reclaim whose publish was lost.
C12_QueuedEventuallyClaimed ==
    \A t \in Tasks :
        (Members(zset, "queued", QueueOf(t)) = {t} /\ Serving)
            ~> (zset["queued"][t] = NoScore \/ ~Serving)

\* C13: an execution whose callable cannot be resolved fails and appends no
\* execution record: the length of task:<id>:executions is unchanged by it,
\* and the reconciliation moves the ID to error:Q.
C13_UnresolvedAppendsNothing ==
    [][\A w \in Workers :
        /\ execute(w, "noimport") =>
              /\ pc'[w] = "failure"
              /\ executions' = executions
        /\ Reconciles(w, "failure") => zset'["error"][loc[w].task_id] # NoScore
      ]_vars

\* t is in active:Q with a score older than the timeout, its record is
\* missing, no live worker holds it, and some worker is running.
Skipped(t) == Orphaned(t) /\ task[t] = NoRecord

\* C14: a worker that claims an ID whose record is missing executes nothing,
\* leaves the sorted sets and the executions as they are and keeps the queue
\* in its queue_set; and the ID left in active:Q is eventually taken out of
\* it by a reclaim pass once its score is older than the timeout.
C14_MissingRecordSkippedThenReclaimed ==
    /\ [][\A w \in Workers :
            (load_task(w) /\ task[loc[w].task_id] = NoRecord) =>
                /\ zset' = zset
                /\ executions' = executions
                /\ runs' = runs
                /\ pc'[w] # "exec"
                /\ pc'[w] # "done" => loc[w].queue \in loc'[w].queue_set
       ]_vars
    /\ \A t \in Tasks :
           Skipped(t) ~> (zset["active"][t] = NoScore \/ \A w \in Workers : ~Running(w))

\* C15: with every worker on schedule, between the claim and the
\* reconciliation the score in active:Q of the task a live worker holds is
\* never older than ACTIVE_TASK_UPDATE_TIMER plus one step of the clock.
C15_ScoreKeptFresh ==
    \A w \in Workers, t \in Tasks :
        (Holds(w, t) /\ pc[w] \in {"claimed", "exec"} /\ zset["active"][t] # NoScore)
            => now - zset["active"][t] <= ACTIVE_TASK_UPDATE_TIMER + TickStep

\* C16: when a worker starts a processing pass, every queue announced to it
\* on the activity channel is in its queue_set.
C16_AnnouncedQueuesJoinNextPass ==
    [][\A w \in Workers :
        (pc[w] \in {"off", "listen", "reclaim"} /\ pc'[w] = "run") =>
            activity'[w] \subseteq loc'[w].queue_set
      ]_vars

\* The IDs that leave active:Q in a step.
LeftActive == {t \in Tasks : zset["active"][t] # NoScore /\ zset'["active"][t] = NoScore}

Busy(w) == pc[w] \in {"exec", "success", "failure"}

\* C18: a worker that waits for the child of a claimed task eventually gets
\* past the wait and the reconciliation unless it dies, whatever heartbeats
\* and stop signals occur; and the reconciliation takes the ID out of
\* active:Q, moving it to error:Q after a failure.
C18_ClaimedTaskLeavesActive ==
    /\ [][\A w \in Workers :
            LET t == loc[w].task_id
            IN /\ pc[w] = "exec" => pc'[w] \in {"exec", "success", "failure", "dead"}
               /\ (Reconciles(w, "success") \/ Reconciles(w, "failure")) =>
                      zset'["active"][t] = NoScore
               /\ Reconciles(w, "failure") => zset'["error"][t] # NoScore
       ]_vars
    /\ \A w \in Workers : Busy(w) ~> ~Busy(w)

\* A worker that was sent a stop signal while it waited has reconciled a
\* failure after at least one heartbeat interval and has exited.
C18_Witness ==
    \E w \in Workers, t \in Tasks :
        /\ pc[w] = "done"
        /\ stop_requested[w]
        /\ now >= ACTIVE_TASK_UPDATE_TIMER
        /\ zset["error"][t] = now
        /\ zset["active"][t] = NoScore

\* The workers whose child is executing t.
Executing(t) == {w \in Workers : Holds(w, t) /\ pc[w] = "exec"}

\* C19: no task ID is being executed by two workers at the same time (here
\* even in runs in which no reclaim pass has moved anything, so that no
\* heartbeat was missed).
C19_OneExecutionAtATime ==
    reclaimed = {} => \A t \in Tasks : Cardinality(Executing(t)) <= 1

\* C20: from the completion of an enqueue until an execution of the task
\* succeeds, the ID is in at least one of queued:Q, active:Q, error:Q.
C20_NoTaskLost ==
    \A t \in Tasks : awaiting[t] => Buckets(t) # {}

====
